---- MODULE Spec2Model ----
(***************************************************************************)
(* A model of the three tutorial notebooks of gnn-tutorial:                *)
(*   b1  notebooks/b1-transition.ipynb   (recurrent transitions, DGL)      *)
(*   b2  notebooks/b2-graphsage.ipynb    (GraphSAGE, DGL)                  *)
(*   b3  b3-vgae.ipynb                   (GAE / VGAE, PyG)                 *)
(* A notebook is a sequence of code cells, a cell a sequence of            *)
(* statements, and the functions the cells define are sequences of         *)
(* statements too.  The statements are executed one at a time by an        *)
(* interpreter with a call stack; a library call may raise.                *)
(* Tensor values are not computed: a value is represented by where it      *)
(* came from (which call, which epoch), a loss by a small number.          *)
(***************************************************************************)
EXTENDS Integers, Sequences, FiniteSets, TLC

VARIABLES
    nb,            \* the notebook being run: "b1", "b2", "b3" ("gb": get_batches alone)
    env,           \* [colab, cuda]: 'google.colab' in sys.modules, torch.cuda.is_available()
    status,        \* "running" | "failed" (an exception reached the session)
    cell,          \* index of the code cell being executed
    stack,         \* call stack of frames; the first frame is the cell itself
    bind,          \* name -> object (models) bound to a python name
    models,        \* object -> its state, see NewModel
    opt,           \* optimizer name -> the model whose parameters it holds
    calls,         \* function name -> number of calls made so far
    call_steps,    \* optimizer steps made by the training call in progress
    loss,          \* the loss of the iteration in progress (NoLoss: none)
    batch,         \* [x, y]: the batch handed to the model
    z,             \* the latent of the last encode: [kind, src]
    recon,         \* the latent that entered the last recon_loss
    kl,            \* the source of mu/logvar used by the last kl_loss
    scored,        \* the output that the last metric computation scored
    auc_ap,        \* the locals (auc, ap) of train_gae / train_vgae
    ret,           \* the value returned by the last call that returned
    ret_log,       \* the calls of train_gae / train_vgae that returned, in order
    gae_results,   \* the list gae_results of the experiments cell
    vgae_results,  \* the list vgae_results
    lists,         \* the python lists epoch_losses, y_true, y_pred, hidden, all_train_logits
    edge_index,    \* data.edge_index is present (not None)
    files,         \* paths the code has created or written
    hist,          \* the events <<kind, object>> that have happened
    last_ev,       \* the event of the statement executed last
    raised,        \* an exception has been raised
    in_xs, in_ys, in_batch_size,   \* arguments of a get_batches call
    out_batches,   \* its result <<batches_x, batches_y>>
    helper_in,     \* arguments of another helper called on its own
    helper_out,    \* what that call did and returned
    reruns         \* cells the user has executed again, out of the linear order

ctl    == <<nb, env, status, cell, stack>>
objs   == <<bind, models, opt>>
train_ == <<calls, call_steps, loss, batch>>
vae    == <<z, recon, kl, scored>>
res    == <<auc_ap, ret, ret_log, gae_results, vgae_results, lists>>
world  == <<edge_index, files, hist, last_ev, raised>>
gb     == <<in_xs, in_ys, in_batch_size, out_batches, helper_in, helper_out, reruns>>
vars   == <<ctl, objs, train_, vae, res, world, gb>>

-----------------------------------------------------------------------------
(* Bounds of the model *)
MaxLen   == 4      \* longest dataset handed to get_batches on its own
MaxBatch == 3      \* largest batch_size handed to get_batches on its own
MaxLoss  == 1      \* losses are drawn from 0..MaxLoss
MaxReruns == 1     \* cells the user executes again, out of the linear order
MaxVertex == 1     \* vertex ids of the edge lists handed to the graph builders: 0..MaxVertex
MaxEdges  == 3     \* longest edge list handed to the graph builders
MaxDim    == 2     \* components of the logvar tensors handed to VGAE
LogvarSpread == 1  \* logvar components range over MAX_LOGVAR -+ LogvarSpread
MaxRows   == 2     \* rows of the score matrices handed to get_accuracy
MaxClasses == 2    \* columns of those matrices

-----------------------------------------------------------------------------
(* Python helpers *)

Min(a, b) == IF a < b THEN a ELSE b

\* math.ceil(a / b) for a >= 0, b >= 1
Ceil(a, b) == (a + b - 1) \div b

\* s[a:b] on a sequence, 0-based, with Python's clamping of the end
Slice(s, a, b) == SubSeq(s, a + 1, Min(b, Len(s)))

RECURSIVE Concat(_)
Concat(ss) == IF ss = <<>> THEN <<>> ELSE Head(ss) \o Concat(Tail(ss))

\* get_batches with its loop over range(num_batches): no batch is dropped
get_batches_all(xs, ys, batch_size) ==
    LET num == Len(xs)
        num_batches == Ceil(num, batch_size)
    IN  << [i \in 1..num_batches |->
               Slice(xs, batch_size * (i - 1), Min(batch_size * i, num))],
           [i \in 1..num_batches |->
               Slice(ys, batch_size * (i - 1), Min(batch_size * i, num))] >>

\* get_batches(xs, ys, batch_size): for i in range(num_batches - 1)
get_batches(xs, ys, batch_size) ==
    LET num == Len(xs)
        num_batches == Ceil(num, batch_size)
    IN  << [i \in 1..(num_batches - 1) |->
               Slice(xs, batch_size * (i - 1), Min(batch_size * i, num))],
           [i \in 1..(num_batches - 1) |->
               Slice(ys, batch_size * (i - 1), Min(batch_size * i, num))] >>

-----------------------------------------------------------------------------
(* Statements.  I(op, a, b, n): op the kind of statement, a and b its      *)
(* names (a variable, a function, a path), n a number (an argument or the  *)
(* index of the statement a for / endfor / if refers to: a for names its   *)
(* endfor, an endfor its for, an if the statement to go to when false).    *)

I(op, a, b, n) == [op |-> op, a |-> a, b |-> b, n |-> n]

NoObj   == <<"", 0>>
NoLoss  == -1
NoTok   == [by |-> "none", call |-> 0, epoch |-> -1]
NoZ     == [kind |-> "none", src |-> NoTok, obj |-> NoObj]
NoScore == [auc |-> NoTok, ap |-> NoTok]
NoRet   == [kind |-> "none", a |-> NoTok, b |-> NoTok, n |-> 0]
NoBatch == [x |-> <<>>, y |-> <<>>]
\* a python list is represented by its length and by its last entry (the graph
\* the entry belongs to); epoch_losses and all_train_logits by their length
NoList  == [n |-> 0, last |-> -1]
NoLists == [epoch_losses |-> 0, y_true |-> NoList, y_pred |-> NoList,
            hidden |-> NoList, logits |-> 0]

\* list.extend(entries) and list.append(entry)
Extend(l, entries) == IF entries = <<>> THEN l
                      ELSE [n |-> l.n + Len(entries), last |-> entries[Len(entries)]]
AppendTo(l, entry) == [n |-> l.n + 1, last |-> entry]

-----------------------------------------------------------------------------
(* b1-transition.ipynb *)

\* the 12725 graphs of the stargazers dataset and their labels, each
\* represented by the index of its graph
NumStargazerGraphs == 12725
stargazer_x == [i \in 1..NumStargazerGraphs |-> i - 1]
stargazer_y == [i \in 1..NumStargazerGraphs |-> i - 1]

num_train        == 8096
num_test         == 2048
train_batch_size == 64
test_batch_size  == 1

\* get_batches(stargazer_x[:num_train], stargazer_y[:num_train], batch_size=64)
train_batches ==
    get_batches(Slice(stargazer_x, 0, num_train), Slice(stargazer_y, 0, num_train),
                train_batch_size)

\* get_batches(stargazer_x[num_train:num_train+num_test], ..., batch_size=1)
test_batches ==
    get_batches(Slice(stargazer_x, num_train, num_train + num_test),
                Slice(stargazer_y, num_train, num_train + num_test),
                test_batch_size)

train_stargazer_gnn == <<
    I("make_opt", "opt", "gnn", 0),            \* loss_func, opt = Adam(gnn.parameters())
    I("get_batches", "train", "", 0),
    I("store", "epoch_losses", "new", 0),      \* epoch_losses = []
    I("for", "i", "", 17),                     \* for epoch_index in range(num_epochs)
    I("skip", "epoch_loss = 0", "", 0),
    I("for", "j", "", 14),                     \* for batch_index in range(len(batches_x))
    I("get_batch", "train", "", 0),
    I("forward", "gnn", "", 0),                \* x = dgl.batch(batch_x); y_hat = gnn(x)
    I("loss", "mse", "", 0),
    I("zero_grad", "opt", "", 0),
    I("backward", "gnn", "", 0),
    I("opt_step", "opt", "", 0),
    I("skip", "loss.item()", "", 0),           \* epoch_loss += loss.item()
    I("endfor", "j", "", 6),
    I("print", "epoch loss", "", 0),           \* epoch_loss /= len(batches_x); print
    I("store", "epoch_losses", "append", 0),
    I("endfor", "i", "", 4),
    I("return", "epoch_losses", "", 0) >>

test_stargazer_gnn == <<
    I("get_batches", "test", "", 0),
    I("store", "test_lists", "new", 0),        \* y_true = []; y_pred = []; hidden = []
    I("for", "j", "", 7),
    I("get_batch", "test", "", 0),
    I("forward", "gnn", "", 0),                \* y_hat = argmax(gnn(x)); h = mean(gnn.hidden(x))
    I("store", "test_lists", "extend", 0),     \* hidden.append(h); y_pred.extend; y_true.extend
    I("endfor", "j", "", 3),
    I("return", "test_lists", "", 0) >>

\* train_test_architecture with the test and the report before the training
train_test_architecture_test_first == <<
    I("construct", "gnn_run", "StargazerGNN", 0),
    I("call", "test_stargazer_gnn", "gnn_run", 0),
    I("eval", "classification_report", "gnn_run", 0),
    I("plot", "tsne", "", 0),
    I("call", "train_stargazer_gnn", "gnn_run", -1),
    I("if", "plot_loss", "", 8),
    I("plot", "loss", "", 0),
    I("return", "none", "", 0) >>

train_test_architecture == <<
    I("construct", "gnn_run", "StargazerGNN", 0),
    I("call", "train_stargazer_gnn", "gnn_run", -1),  \* -1: its own num_epochs
    I("if", "plot_loss", "", 5),
    I("plot", "loss", "", 0),
    I("call", "test_stargazer_gnn", "gnn_run", 0),
    I("eval", "classification_report", "gnn_run", 0), \* report, roc_curve, auc: printed
    I("plot", "tsne", "", 0),
    I("return", "none", "", 0) >>

tta_cell(n) == << I("call", "train_test_architecture", "", n) >>

B1Cells == <<
    << I("write", "pip install dgl", "site-packages", 0), I("def", "imports", "", 0) >>,
    << I("def", "plot_stargazer_graph", "", 0) >>,
    << I("def", "plot_webmluser_graph", "", 0) >>,
    << I("def", "get_batches", "", 0) >>,
    << I("if", "IN_COLAB", "", 3),
       I("write", "git clone", "./gnn-tutorial", 0),
       I("load", "stargazer_labels", "", 0),
       I("print", "labels", "", 0) >>,
    << I("load", "stargazer_edges", "", 0) >>,
    << I("print", "stargazer_edges['19'][:10]", "", 0) >>,
    << I("def", "make_stargazer_graph", "", 0) >>,
    << I("load", "stargazer_x", "", 0), I("print", "first graph", "", 0) >>,
    << I("plot", "stargazer_x[19]", "", 0) >>,
    << I("plot", "stargazer_x[2]", "", 0) >>,
    << I("load", "webmluser_labels", "", 0), I("print", "labels", "", 0) >>,
    << I("load", "webmluser_features", "", 0) >>,
    << I("print", "webmluser_features['9001']", "", 0) >>,
    << I("load", "webmluser_edges", "", 0) >>,
    << I("def", "make_webmluser_graph", "", 0) >>,
    << I("load", "webmluser_x", "", 0), I("print", "nodes, edges", "", 0) >>,
    << I("def", "StargazerGNN", "", 0) >>,
    << I("def", "train_stargazer_gnn", "", 0) >>,
    << I("def", "test_stargazer_gnn", "", 0) >>,
    << I("construct", "stargazer_gnn_example", "StargazerGNN", 0),
       I("call", "train_stargazer_gnn", "stargazer_gnn_example", 8) >>,
    << I("call", "test_stargazer_gnn", "stargazer_gnn_example", 0) >>,
    << I("eval", "classification_report", "stargazer_gnn_example", 0) >>,
    << I("plot", "tsne", "", 0) >>,
    << I("def", "train_test_architecture", "", 0) >>,
    tta_cell(6), tta_cell(6), tta_cell(6), tta_cell(6), tta_cell(6) >>

-----------------------------------------------------------------------------
(* b2-graphsage.ipynb *)

n_epochs == 120

\* train with optimizer.zero_grad() after loss.backward()
train_zero_after_backward == <<
    I("store", "logits", "new", 0),
    I("for", "i", "", 13),
    I("mode", "model", "train", 0),
    I("forward", "model", "", 0),
    I("loss", "ce", "", 0),
    I("backward", "model", "", 0),
    I("zero_grad", "optimizer", "", 0),
    I("opt_step", "optimizer", "", 0),
    I("mode", "model", "eval", 0),
    I("eval", "get_accuracy", "model", 0),
    I("store", "logits", "append", 0),
    I("print", "loss.item()", "", 0),
    I("endfor", "i", "", 2),
    I("print", "training complete", "", 0),
    I("return", "output", "", 0) >>

train == <<
    I("store", "logits", "new", 0),            \* dur = []; all_train_logits = []
    I("for", "i", "", 13),                     \* for epoch in range(n_epochs)
    I("mode", "model", "train", 0),            \* model.train()
    I("forward", "model", "", 0),              \* output = model(features)
    I("loss", "ce", "", 0),                    \* loss_fcn(output[train_mask], ...)
    I("zero_grad", "optimizer", "", 0),
    I("backward", "model", "", 0),
    I("opt_step", "optimizer", "", 0),
    I("mode", "model", "eval", 0),             \* model.eval()
    I("eval", "get_accuracy", "model", 0),     \* acc of output[val_mask]
    I("store", "logits", "append", 0),         \* all_train_logits.append(output_train)
    I("print", "loss.item()", "", 0),           \* Epoch | Time | Loss | Accuracy | TEPS
    I("endfor", "i", "", 2),
    I("print", "training complete", "", 0),
    I("return", "output", "", 0) >>

construct_cell(cls) == << I("construct", "model", cls, 0),
                          I("make_opt", "optimizer", "model", 0) >>
\* a test cell that also saves its result
test_cell_saves == << I("eval", "get_accuracy", "model", 0), I("print", "Test Accuracy", "", 0),
                      I("write", "torch.save", "./results.pt", 0) >>
train_cell == << I("call", "train", "model", n_epochs) >>
test_cell  == << I("eval", "get_accuracy", "model", 0), I("print", "Test Accuracy", "", 0) >>

B2Cells == <<
    << I("def", "imports", "", 0), I("write", "pip install dgl", "site-packages", 0) >>,
    << I("load", "CoraGraphDataset", "~/.dgl", 0), I("print", "categories", "", 0) >>,
    << I("load", "g, features, labels", "", 0), I("print", "nodes, edges", "", 0),
       I("plot", "label histogram", "", 0) >>,
    << I("load", "masks", "", 0), I("print", "samples", "", 0) >>,
    << I("load", "tensors", "", 0) >>,
    << I("print", "cuda", "", 0), I("if", "cuda", "", 4),
       I("skip", "features.cuda() ...", "", 0) >>,
    << I("load", "gx", "", 0), I("plot", "cora subgraph", "", 0) >>,
    << I("load", "g", "", 0) >>,
    << I("def", "MeanAggSageLayer", "", 0) >>,
    << I("def", "SimpleGraphSAGE", "", 0) >>,
    << I("def", "hyperparameters", "", 0) >>,
    << I("construct", "model", "SimpleGraphSAGE", 0) >>,
    << I("make_opt", "optimizer", "model", 0) >>,
    << I("def", "get_accuracy", "", 0) >>,
    << I("def", "train", "", 0) >>,
    train_cell, test_cell,
    << I("def", "SAGEConv", "", 0) >>,
    << I("def", "GraphSAGE", "", 0) >>,
    construct_cell("GraphSAGE mean"), train_cell, test_cell,
    construct_cell("GraphSAGE pool"), train_cell, test_cell,
    construct_cell("GraphSAGE lstm"), train_cell, test_cell,
    << I("skip", "colors, nx_g, rn_nodes", "", 0) >>,
    << I("def", "draw_epoch", "", 0), I("plot", "draw_epoch(0)", "", 0) >>,
    << I("def", "ani", "", 0) >>,
    << I("for", "j", "", 3),                   \* ani.to_jshtml(): one frame per epoch
       I("plot", "draw_epoch(i)", "", 0),
       I("endfor", "j", "", 1) >> >>

-----------------------------------------------------------------------------
(* b3-vgae.ipynb *)

NumEpochs     == 200
n_experiments == 10
MaxPlotNodes  == 50000
PubMedNodes   == 19717     \* data.num_nodes of the PubMed graph

\* plot(data, outfile='./graph.eps')
plot == <<
    I("assert", "edge_index", "", 0),
    I("skip", "g = ig.Graph() ...", "", 0),
    I("write", "ig.plot", "./graph.eps", 0),
    I("plot", "imshow", "", 0),
    I("return", "none", "", 0) >>

\* test(model, pos_edge_index, neg_edge_index)
test == <<
    I("mode", "model", "eval", 0),
    I("forward", "model", "", 0),              \* z = model.encode(x, train_pos_edge_index)
    I("eval", "model.test", "model", 0),
    I("return", "score", "", 0) >>

train_gae == <<
    I("print", "training gae", "", 0),
    I("store", "auc_ap", "new", 0),            \* auc, ap = None, None
    I("for", "i", "", 16),
    I("zero_grad", "gae_optimizer", "", 0),
    I("forward", "gae", "", 0),                \* z = gae.encode(x, train_pos_edge_index)
    I("loss", "recon", "", 0),
    I("backward", "gae", "", 0),
    I("opt_step", "gae_optimizer", "", 0),
    I("write", "loss.item()", "./log", 0),     \* writer.add_scalar("loss", ...)
    I("call", "test", "gae", 0),
    I("store", "auc_ap", "set", 0),
    I("write", "add_scalar AUC", "./log", 0),
    I("write", "add_scalar AP", "./log", 0),
    I("if", "epoch100", "", 16),
    I("print", "Epoch, AUC, AP", "", 0),
    I("endfor", "i", "", 3),
    I("return", "auc_ap", "", 0) >>

\* train_vgae with vgae.kl_loss() called before vgae.encode
train_vgae_kl_first == <<
    I("print", "training vgae", "", 0),
    I("store", "auc_ap", "new", 0),
    I("for", "i", "", 18),
    I("zero_grad", "vgae_optimizer", "", 0),
    I("kl_loss", "vgae", "", 0),
    I("forward", "vgae", "", 0),
    I("loss", "recon", "", 0),
    I("skip", "loss = recon_loss + (1 / data.num_nodes) * kl_loss", "", 0),
    I("backward", "vgae", "", 0),
    I("opt_step", "vgae_optimizer", "", 0),
    I("write", "loss.item()", "./log", 0),
    I("call", "test", "vgae", 0),
    I("store", "auc_ap", "set", 0),
    I("write", "add_scalar AUC", "./log", 0),
    I("write", "add_scalar AP", "./log", 0),
    I("if", "epoch100", "", 18),
    I("print", "Epoch, AUC, AP", "", 0),
    I("endfor", "i", "", 3),
    I("return", "auc_ap", "", 0) >>

train_vgae == <<
    I("print", "training vgae", "", 0),
    I("store", "auc_ap", "new", 0),
    I("for", "i", "", 18),
    I("zero_grad", "vgae_optimizer", "", 0),
    I("forward", "vgae", "", 0),               \* z = vgae.encode(x, train_pos_edge_index)
    I("loss", "recon", "", 0),
    I("kl_loss", "vgae", "", 0),
    I("skip", "loss = recon_loss + (1 / data.num_nodes) * kl_loss", "", 0),
    I("backward", "vgae", "", 0),
    I("opt_step", "vgae_optimizer", "", 0),
    I("write", "loss.item()", "./log", 0),     \* writer.add_scalar("loss", ...)
    I("call", "test", "vgae", 0),
    I("store", "auc_ap", "set", 0),
    I("write", "add_scalar AUC", "./log", 0),
    I("write", "add_scalar AP", "./log", 0),
    I("if", "epoch100", "", 18),
    I("print", "Epoch, AUC, AP", "", 0),
    I("endfor", "i", "", 3),
    I("return", "auc_ap", "", 0) >>

\* the experiments cell with the two appends exchanged
experiments_cell_swapped == <<
    I("print", "running experiments", "", 0),
    I("store", "gae_results", "new", 0),
    I("store", "vgae_results", "new", 0),
    I("for", "i", "", 10),
    I("print", "i + 1", "", 0),
    I("call", "train_gae", "", 0),
    I("store", "vgae_results", "append", 0),
    I("call", "train_vgae", "", 0),
    I("store", "gae_results", "append", 0),
    I("endfor", "i", "", 4) >>

experiments_cell == <<
    I("print", "running experiments", "", 0),
    I("store", "gae_results", "new", 0),
    I("store", "vgae_results", "new", 0),
    I("for", "i", "", 10),                     \* for i in range(n_experiments)
    I("print", "i + 1", "", 0),
    I("call", "train_gae", "", 0),
    I("store", "gae_results", "append", 0),
    I("call", "train_vgae", "", 0),
    I("store", "vgae_results", "append", 0),
    I("endfor", "i", "", 4) >>

B3Cells == <<
    << I("def", "import torch", "", 0), I("if", "IN_COLAB", "", 4),
       I("write", "pip install torch-geometric ...", "site-packages", 0),
       I("write", "pip install pycairo", "site-packages", 0),
       I("def", "imports, MAX_LOGVAR", "", 0) >>,
    << I("def", "manual_seed", "", 0) >>,
    << I("load", "PubMed", "./datasets/PubMed", 0), I("print", "data.y", "", 0) >>,
    << I("print", "num nodes, edges, features", "", 0) >>,
    << I("def", "plot", "", 0) >>,
    << I("if", "plot_ok", "", 3), I("call", "plot", "", 0) >>,
    << I("print", "dataset", "", 0) >>,
    << I("split_edges", "data", "", 0), I("print", "num train edges", "", 0) >>,
    << I("print", "CUDA available", "", 0) >>,
    << I("load", "x, train_pos_edge_index", "", 0) >>,
    << I("print", "shapes", "", 0) >>,
    << I("def", "GAE", "", 0) >>,
    << I("def", "GAEEncoder", "", 0) >>,
    << I("def", "InnerProductDecoder", "", 0) >>,
    << I("construct", "gae", "GAE", 0) >>,
    << I("make_opt", "gae_optimizer", "gae", 0) >>,
    << I("write", "SummaryWriter", "./log", 0) >>,
    << I("def", "test", "", 0) >>,
    << I("def", "train_gae", "", 0) >>,
    << I("call", "train_gae", "", 0), I("forward", "gae", "", 0), I("print", "z", "", 0) >>,
    << I("def", "VGAE", "", 0) >>,
    << I("def", "VGAEEncoder", "", 0) >>,
    << I("construct", "vgae", "VGAE", 0) >>,
    << I("make_opt", "vgae_optimizer", "vgae", 0) >>,
    << I("def", "train_vgae", "", 0) >>,
    << I("call", "train_vgae", "", 0) >>,
    experiments_cell,
    << I("print", "GAE results", "", 0) >>,
    << I("print", "VGAE results", "", 0) >> >>

-----------------------------------------------------------------------------
(* The interpreter *)

Notebooks == {"b1", "b2", "b3"}
Names     == {"gnn", "gnn_run", "stargazer_gnn_example", "model", "gae", "vgae"}
OptNames  == {"opt", "optimizer", "gae_optimizer", "vgae_optimizer"}
Functions == {"cell", "train_stargazer_gnn", "test_stargazer_gnn",
              "train_test_architecture", "train", "plot", "test",
              "train_gae", "train_vgae"}

Notebook(n) == CASE n = "b1" -> B1Cells
                 [] n = "b2" -> B2Cells
                 [] n = "b3" -> B3Cells
                 [] OTHER    -> <<>>

Body(fn) == CASE fn = "train_stargazer_gnn"     -> train_stargazer_gnn
              [] fn = "test_stargazer_gnn"      -> test_stargazer_gnn
              [] fn = "train_test_architecture" -> train_test_architecture
              [] fn = "train"                   -> train
              [] fn = "plot"                    -> plot
              [] fn = "test"                    -> test
              [] fn = "train_gae"               -> train_gae
              [] fn = "train_vgae"              -> train_vgae

\* the parameter of fn that receives a model, "" when it has none
Param(fn) == CASE fn \in {"train_stargazer_gnn", "test_stargazer_gnn"} -> "gnn"
               [] fn \in {"train", "test"}                            -> "model"
               [] OTHER                                               -> ""

\* the name under which a training function knows the model it trains
ModelVar(fn) == CASE fn = "train_stargazer_gnn" -> "gnn"
                  [] fn = "train"               -> "model"
                  [] fn = "train_gae"           -> "gae"
                  [] fn = "train_vgae"          -> "vgae"

IsTrain(fn) == fn \in {"train_stargazer_gnn", "train", "train_gae", "train_vgae"}

Batches(a) == IF a = "train" THEN train_batches ELSE test_batches

Frame(fn, n) == [fn |-> fn, ip |-> 1, n |-> n, i |-> -1, j |-> -1, nbat |-> 0]

Top     == stack[Len(stack)]
Code(f) == IF f.fn = "cell" THEN Notebook(nb)[cell] ELSE Body(f.fn)
Running == status = "running" /\ nb \in Notebooks /\ cell <= Len(Notebook(nb))
AtStmt  == Running /\ Top.ip <= Len(Code(Top))
Cur     == Code(Top)[Top.ip]
At(op)  == AtStmt /\ Cur.op = op

SetTop(f) == stack' = [stack EXCEPT ![Len(stack)] = f]
Goto(k)   == SetTop([Top EXCEPT !.ip = k])
Step      == Goto(Top.ip + 1)

\* RangeOf with range(n_epochs - 1) in train, the slip of get_batches
RangeOf_one_short(f, v) ==
    CASE f.fn = "train_stargazer_gnn" /\ v = "i" -> f.n
      [] f.fn = "train_stargazer_gnn" /\ v = "j" -> f.nbat
      [] f.fn = "test_stargazer_gnn"             -> f.nbat
      [] f.fn = "train"                          -> f.n - 1
      [] f.fn \in {"train_gae", "train_vgae"}    -> NumEpochs
      [] f.fn = "cell" /\ v = "i"                -> n_experiments
      [] f.fn = "cell" /\ v = "j"                -> lists.logits

\* range(...) of the for loop over v in the frame f
RangeOf(f, v) ==
    CASE f.fn = "train_stargazer_gnn" /\ v = "i" -> f.n          \* range(num_epochs)
      [] f.fn = "train_stargazer_gnn" /\ v = "j" -> f.nbat       \* range(len(batches_x))
      [] f.fn = "test_stargazer_gnn"             -> f.nbat
      [] f.fn = "train"                          -> f.n          \* range(n_epochs)
      [] f.fn \in {"train_gae", "train_vgae"}    -> NumEpochs    \* range(200)
      [] f.fn = "cell" /\ v = "i"                -> n_experiments
      [] f.fn = "cell" /\ v = "j"                -> lists.logits \* frames=len(all_train_logits)

\* the conditions of the if statements
Cond(f, a) ==
    CASE a = "IN_COLAB"  -> env.colab
      [] a = "cuda"      -> env.cuda
      [] a = "plot_loss" -> f.n > 0                  \* num_epochs > 0 and plot_loss
      [] a = "plot_ok"   -> PubMedNodes < MaxPlotNodes /\ ~env.colab
      [] a = "epoch100"  -> (f.i + 1) % 100 = 0

\* torch.nn.Module after construction: training mode, no gradients
NewModel(cls) ==
    [cls |-> cls, training |-> TRUE,
     grad |-> 0,         \* backward passes accumulated in .grad since it was zeroed
     zeroed |-> 0,       \* zero_grad calls since the last backward pass
     zb |-> -1,          \* the value of zeroed at the last backward pass
     fresh |-> "none",   \* the last of forward / loss / backward / step done with it
     bwd_on |-> "none",  \* the value of fresh at the last backward pass
     step_on |-> "none", \* the value of fresh at the last optimizer step
     mu |-> NoTok]       \* VGAE: the encode call that set __mu__ and __logvar__

\* the encode / forward call being made now
Now == [by |-> Top.fn, call |-> calls[Top.fn], epoch |-> Top.i]

\* VGAE.reparametrize: the kind of latent it returns
reparametrize(training) == IF training THEN "sample" ELSE "mean"

\* VGAE.encode: stores mu and logvar, returns the reparametrised latent
VGAE_encode(m, o) ==
    [m |-> [m EXCEPT !.mu = Now, !.fresh = "fwd"],
     z |-> [kind |-> reparametrize(m.training), src |-> Now, obj |-> o]]

\* any other forward pass (GAE.encode, StargazerGNN, SimpleGraphSAGE, GraphSAGE)
forward(m, o) ==
    [m |-> [m EXCEPT !.fresh = "fwd"],
     z |-> [kind |-> IF m.training THEN "train" ELSE "eval", src |-> Now, obj |-> o]]

\* VGAE.kl_loss() without arguments: mu and logvar of the last encode
kl_loss(m) == m.mu

\* the library calls that are given the data and may raise on it
CanRaise(s) == s.op \in {"load", "construct", "forward", "backward", "eval",
                         "split_edges"}

-----------------------------------------------------------------------------
(* The statements *)

ctlx == <<nb, env, status, cell>>

\* loss.item() is the last read of the loss tensor in an iteration: the model
\* forgets the value there
AfterUse(s) == IF s.a = "loss.item()" THEN NoLoss ELSE loss

\* the statement did e to the object o; Log also records it in hist
Did(e, o) == last_ev' = <<e, o>> /\ UNCHANGED hist
Log(e, o) == last_ev' = <<e, o>> /\ hist' = hist \cup {<<e, o>>}

\* def / class / import / an assignment of plain python values
Local ==
    /\ AtStmt /\ Cur.op \in {"def", "skip"}
    /\ Step /\ Did(Cur.op, NoObj)
    /\ loss' = AfterUse(Cur)
    /\ UNCHANGED <<ctlx, objs, calls, call_steps, batch, vae, res, edge_index, files, raised, gb>>

ConsolePrint ==
    /\ At("print")
    /\ Step /\ Did("print", NoObj)
    /\ loss' = AfterUse(Cur)
    /\ UNCHANGED <<ctlx, objs, calls, call_steps, batch, vae, res, edge_index, files, raised, gb>>

\* an inline plot (nx.draw, plt.plot, plt.scatter, ax.imshow, an animation frame)
Plot ==
    /\ At("plot")
    /\ Step /\ Log("plot", NoObj)
    /\ UNCHANGED <<ctlx, objs, train_, vae, res, edge_index, files, raised, gb>>

\* reading a dataset; the dataset classes of DGL and PyG download it to disk
Load ==
    /\ At("load")
    /\ Step /\ Log("load", NoObj)
    /\ files' = IF Cur.b = "" THEN files ELSE files \cup {Cur.b}
    /\ UNCHANGED <<ctlx, objs, train_, vae, res, edge_index, raised, gb>>

\* a statement that names a path to create or write: !pip install, !git clone,
\* SummaryWriter(path), writer.add_scalar, ig.plot(g, outfile)
Write ==
    /\ At("write")
    /\ Step /\ Did("write", NoObj)
    /\ files' = files \cup {Cur.b}
    /\ loss' = AfterUse(Cur)
    /\ UNCHANGED <<ctlx, objs, calls, call_steps, batch, vae, res, edge_index, raised, gb>>

\* name = Class(...): a new model object, bound to the name
Construct ==
    /\ At("construct")
    /\ LET o == <<Cur.a, cell>> IN
         /\ bind' = [bind EXCEPT ![Cur.a] = o]
         /\ models' = (o :> NewModel(Cur.b)) @@ models
         /\ Log("construct", o)
    /\ Step
    /\ UNCHANGED <<ctlx, opt, train_, vae, res, edge_index, files, raised, gb>>

\* name = torch.optim.Adam(model.parameters(), ...)
MakeOpt ==
    /\ At("make_opt")
    /\ opt' = [opt EXCEPT ![Cur.a] = bind[Cur.b]]
    /\ Step /\ Did("make_opt", bind[Cur.b])
    /\ UNCHANGED <<ctlx, bind, models, train_, vae, res, edge_index, files, raised, gb>>

\* a call of a function of the notebook: a new frame; the caller resumes at
\* its next statement
Call ==
    /\ At("call")
    /\ LET fn == Cur.a
           n  == IF Cur.n = -1 THEN Top.n ELSE Cur.n
           b  == IF Param(fn) = "" THEN bind
                 ELSE [bind EXCEPT ![Param(fn)] = bind[Cur.b]]
       IN /\ stack' = Append([stack EXCEPT ![Len(stack)].ip = @ + 1], Frame(fn, n))
          /\ bind' = b
          /\ calls' = [calls EXCEPT ![fn] = @ + 1]
          /\ call_steps' = IF IsTrain(fn) THEN 0 ELSE call_steps
          /\ IF IsTrain(fn) THEN Log("train_start", b[ModelVar(fn)])
                            ELSE Did("call", NoObj)
    /\ UNCHANGED <<ctlx, models, opt, loss, batch, vae, res, edge_index, files, raised, gb>>

\* the value a return statement returns
ReturnValue(a) ==
    CASE a = "auc_ap"       -> [NoRet EXCEPT !.kind = a, !.a = auc_ap.auc, !.b = auc_ap.ap]
      [] a = "score"        -> [NoRet EXCEPT !.kind = a,   \* roc_auc_score, average_precision_score
                                  !.a = [by |-> "auc", call |-> calls["test"], epoch |-> 0],
                                  !.b = [by |-> "ap", call |-> calls["test"], epoch |-> 0]]
      [] a = "epoch_losses" -> [NoRet EXCEPT !.kind = a, !.n = lists.epoch_losses]
      [] a = "output"       -> [NoRet EXCEPT !.kind = a, !.a = z.src]
      [] a = "test_lists"   -> [NoRet EXCEPT !.kind = a, !.n = lists.hidden.n]
      [] OTHER              -> NoRet

\* return: the frame is dropped with its locals
Return ==
    /\ At("return") /\ Len(stack) > 1
    /\ LET fn == Top.fn
           v  == ReturnValue(Cur.a)
       IN /\ stack' = SubSeq(stack, 1, Len(stack) - 1)
          /\ ret' = v
          /\ ret_log' = IF fn \in {"train_gae", "train_vgae"}
                        THEN Append(ret_log, [fn |-> fn, val |-> <<v.a, v.b>>])
                        ELSE ret_log
          /\ loss' = IF IsTrain(fn) THEN NoLoss ELSE loss
          /\ batch' = IF fn \in {"train_stargazer_gnn", "test_stargazer_gnn"}
                      THEN NoBatch ELSE batch
          /\ IF IsTrain(fn) THEN Log("train_done", bind[ModelVar(fn)])
                            ELSE Did("return", NoObj)
    /\ UNCHANGED <<ctlx, objs, calls, call_steps, vae, auc_ap, gae_results,
                   vgae_results, lists, edge_index, files, raised, gb>>

\* for v in range(n): entered from above
For ==
    /\ At("for")
    /\ IF RangeOf(Top, Cur.a) > 0
       THEN SetTop([Top EXCEPT !.ip = @ + 1,
                               !.i = IF Cur.a = "i" THEN 0 ELSE @,
                               !.j = IF Cur.a = "j" THEN 0 ELSE @])
       ELSE Goto(Cur.n + 1)
    /\ Did("for", NoObj)
    /\ UNCHANGED <<ctlx, objs, train_, vae, res, edge_index, files, raised, gb>>

\* the end of the loop body: the next value of the range, or the loop's exit
EndFor ==
    /\ At("endfor")
    /\ LET v == IF Cur.a = "i" THEN Top.i ELSE Top.j IN
         IF v + 1 < RangeOf(Top, Cur.a)
         THEN SetTop([Top EXCEPT !.ip = Cur.n + 1,
                                 !.i = IF Cur.a = "i" THEN v + 1 ELSE @,
                                 !.j = IF Cur.a = "j" THEN v + 1 ELSE @])
         ELSE Step
    /\ Did("endfor", NoObj)
    /\ UNCHANGED <<ctlx, objs, train_, vae, res, edge_index, files, raised, gb>>

If ==
    /\ At("if")
    /\ IF Cond(Top, Cur.a) THEN Step ELSE Goto(Cur.n)
    /\ Did("if", NoObj)
    /\ UNCHANGED <<ctlx, objs, train_, vae, res, edge_index, files, raised, gb>>

\* batches_x, batches_y = get_batches(...)
GetBatches ==
    /\ At("get_batches")
    /\ SetTop([Top EXCEPT !.ip = @ + 1, !.nbat = Len(Batches(Cur.a)[1])])
    /\ Did("get_batches", NoObj)
    /\ UNCHANGED <<ctlx, objs, train_, vae, res, edge_index, files, raised, gb>>

\* batch_x = batches_x[batch_index]; batch_y = batches_y[batch_index]
GetBatch ==
    /\ At("get_batch")
    /\ batch' = [x |-> Batches(Cur.a)[1][Top.j + 1], y |-> Batches(Cur.a)[2][Top.j + 1]]
    /\ Step /\ Did("get_batch", NoObj)
    /\ UNCHANGED <<ctlx, objs, calls, call_steps, loss, vae, res, edge_index, files,
                   raised, gb>>

\* model(x), model.encode(x, edge_index)
Forward ==
    /\ At("forward")
    /\ LET o == bind[Cur.a]
           r == IF models[o].cls = "VGAE" THEN VGAE_encode(models[o], o)
                                          ELSE forward(models[o], o)
       IN /\ models' = [models EXCEPT ![o] = r.m]
          /\ z' = r.z
          /\ Did("forward", o)
    /\ Step
    /\ UNCHANGED <<ctlx, bind, opt, train_, recon, kl, scored, res, edge_index, files,
                   raised, gb>>

\* loss_func(y_hat, y), loss_fcn(output_train, labels), model.recon_loss(z, edges)
Loss ==
    /\ At("loss")
    /\ \E l \in 0..MaxLoss : loss' = l
    /\ recon' = IF Cur.a = "recon" THEN z ELSE recon
    /\ models' = [models EXCEPT ![z.obj].fresh = IF @ = "fwd" THEN "loss" ELSE "stale"]
    /\ Step /\ Did("loss", z.obj)
    /\ UNCHANGED <<ctlx, bind, opt, calls, call_steps, batch, z, kl, scored, res,
                   edge_index, files, raised, gb>>

\* vgae.kl_loss()
KlLoss ==
    /\ At("kl_loss")
    /\ kl' = kl_loss(models[bind[Cur.a]])
    /\ Step /\ Did("kl_loss", bind[Cur.a])
    /\ UNCHANGED <<ctlx, objs, train_, z, recon, scored, res, edge_index, files,
                   raised, gb>>

\* optimizer.zero_grad(): the gradients of the optimizer's parameters
ZeroGrad ==
    /\ At("zero_grad")
    /\ models' = [models EXCEPT ![opt[Cur.a]].grad = 0, ![opt[Cur.a]].zeroed = @ + 1]
    /\ Step /\ Did("zero_grad", opt[Cur.a])
    /\ UNCHANGED <<ctlx, bind, opt, train_, vae, res, edge_index, files, raised, gb>>

\* loss.backward(): gradients are added to the parameters of the model
Backward ==
    /\ At("backward")
    /\ LET o == bind[Cur.a] IN
         /\ models' = [models EXCEPT ![o].grad = @ + 1, ![o].zb = models[o].zeroed,
                                     ![o].zeroed = 0, ![o].bwd_on = models[o].fresh,
                                     ![o].fresh = "bwd"]
         /\ Did("backward", o)
    /\ Step
    /\ UNCHANGED <<ctlx, bind, opt, train_, vae, res, edge_index, files, raised, gb>>

\* optimizer.step()
OptStep ==
    /\ At("opt_step")
    /\ LET o == opt[Cur.a] IN
         /\ models' = [models EXCEPT ![o].step_on = models[o].fresh, ![o].fresh = "step"]
         /\ Did("opt_step", o)
    /\ call_steps' = call_steps + 1
    /\ Step
    /\ UNCHANGED <<ctlx, bind, opt, calls, loss, batch, vae, res, edge_index, files,
                   raised, gb>>

\* model.train(), model.eval()
Mode ==
    /\ At("mode")
    /\ models' = [models EXCEPT ![bind[Cur.a]].training = (Cur.b = "train")]
    /\ Step /\ Did("mode", bind[Cur.a])
    /\ UNCHANGED <<ctlx, bind, opt, train_, vae, res, edge_index, files, raised, gb>>

\* a metric of a model is computed: get_accuracy, model.test,
\* classification_report / roc_curve / auc
Eval ==
    /\ At("eval")
    /\ scored' = z
    /\ Step /\ Log("eval", bind[Cur.b])
    /\ UNCHANGED <<ctlx, objs, train_, z, recon, kl, res, edge_index, files, raised, gb>>

\* assignments to the lists and result variables
Store ==
    /\ At("store")
    /\ LET a == Cur.a
           b == Cur.b
       IN /\ lists' =
               CASE a = "epoch_losses" ->
                      [lists EXCEPT !.epoch_losses = IF b = "new" THEN 0 ELSE @ + 1]
                 [] a = "logits" ->
                      [lists EXCEPT !.logits = IF b = "new" THEN 0 ELSE @ + 1]
                 [] a = "test_lists" /\ b = "new" ->
                      [lists EXCEPT !.y_true = NoList, !.y_pred = NoList, !.hidden = NoList]
                 [] a = "test_lists" /\ b = "extend" ->
                      [lists EXCEPT !.hidden = AppendTo(@, batch.x[1]),
                                    !.y_pred = Extend(@, batch.x),
                                    !.y_true = Extend(@, batch.y)]
                 [] OTHER -> lists
          /\ auc_ap' = IF a # "auc_ap" THEN auc_ap
                       ELSE IF b = "new" THEN NoScore ELSE [auc |-> ret.a, ap |-> ret.b]
          /\ gae_results' = IF a # "gae_results" THEN gae_results
                            ELSE IF b = "new" THEN <<>>
                            ELSE Append(gae_results, <<ret.a, ret.b>>)
          /\ vgae_results' = IF a # "vgae_results" THEN vgae_results
                             ELSE IF b = "new" THEN <<>>
                             ELSE Append(vgae_results, <<ret.a, ret.b>>)
    /\ Step /\ Did("store", NoObj)
    /\ UNCHANGED <<ctlx, objs, train_, vae, ret, ret_log, edge_index, files, raised, gb>>

\* data = train_test_split_edges(data): data.edge_index becomes None.  The
\* function unpacks data.edge_index: called again, it can only raise.
SplitEdges ==
    /\ At("split_edges")
    /\ edge_index
    /\ edge_index' = FALSE
    /\ Step /\ Did("split_edges", NoObj)
    /\ UNCHANGED <<ctlx, objs, train_, vae, res, files, raised, gb>>

\* the assertion written the wrong way round: assert data.edge_index is None
AssertStmt_inverted ==
    /\ At("assert")
    /\ IF ~edge_index
       THEN Step /\ UNCHANGED <<status, raised>>
       ELSE status' = "failed" /\ raised' = TRUE /\ UNCHANGED stack
    /\ Did("assert", NoObj)
    /\ UNCHANGED <<nb, env, cell, objs, train_, vae, res, edge_index, files, gb>>

\* the assertion stripped, as under python -O
AssertStmt_stripped ==
    /\ At("assert")
    /\ Step /\ UNCHANGED <<status, raised>>
    /\ Did("assert", NoObj)
    /\ UNCHANGED <<nb, env, cell, objs, train_, vae, res, edge_index, files, gb>>

\* assert data.edge_index is not None
AssertStmt ==
    /\ At("assert")
    /\ IF edge_index
       THEN Step /\ UNCHANGED <<status, raised>>
       ELSE status' = "failed" /\ raised' = TRUE /\ UNCHANGED stack
    /\ Did("assert", NoObj)
    /\ UNCHANGED <<nb, env, cell, objs, train_, vae, res, edge_index, files, gb>>

\* the next cell started while the current one is still running, as a
\* kernel that ran cells concurrently would
NextCell_eager ==
    /\ Running
    /\ cell' = cell + 1
    /\ stack' = << Frame("cell", 0) >>
    /\ Did("cell", NoObj)
    /\ UNCHANGED <<nb, env, status, objs, train_, vae, res, edge_index, files, raised, gb>>

\* the cell has run to its end: the next cell, on a fresh top-level frame
NextCell ==
    /\ Running /\ Len(stack) = 1 /\ Top.ip > Len(Code(Top))
    /\ cell' = cell + 1
    /\ stack' = << Frame("cell", 0) >>
    /\ Did("cell", NoObj)
    /\ UNCHANGED <<nb, env, status, objs, train_, vae, res, edge_index, files, raised, gb>>

\* a library call raises inside try: ... except: pass, and the run goes on
\* with the next statement
Raise_swallowed ==
    /\ AtStmt /\ CanRaise(Cur)
    /\ raised' = TRUE
    /\ Step
    /\ UNCHANGED <<nb, env, status, cell, objs, train_, vae, res, edge_index, files,
                   hist, last_ev, gb>>

\* a library call raises.  Nothing in the notebooks catches an exception: it
\* reaches the interactive session and the run stops where it is.
Raise ==
    /\ AtStmt /\ CanRaise(Cur)
    /\ status' = "failed"
    /\ raised' = TRUE
    /\ UNCHANGED <<nb, env, cell, stack, objs, train_, vae, res, edge_index, files,
                   hist, last_ev, gb>>

-----------------------------------------------------------------------------
(* A notebook run top to bottom *)

Envs(n) == IF n = "b2" THEN {[colab |-> FALSE, cuda |-> c] : c \in BOOLEAN}
                       ELSE {[colab |-> c, cuda |-> FALSE] : c \in BOOLEAN}

Init ==
    /\ nb \in Notebooks
    /\ env \in Envs(nb)
    /\ status = "running"
    /\ cell = 1
    /\ stack = << Frame("cell", 0) >>
    /\ bind = [x \in Names |-> NoObj]
    /\ models = <<>>
    /\ opt = [x \in OptNames |-> NoObj]
    /\ calls = [f \in Functions |-> 0]
    /\ call_steps = 0
    /\ loss = NoLoss
    /\ batch = NoBatch
    /\ z = NoZ /\ recon = NoZ /\ kl = NoTok /\ scored = NoZ
    /\ auc_ap = NoScore /\ ret = NoRet /\ ret_log = <<>>
    /\ gae_results = <<>> /\ vgae_results = <<>>
    /\ lists = NoLists
    /\ edge_index = TRUE
    /\ files = {}
    /\ hist = {}
    /\ last_ev = <<"none", NoObj>>
    /\ raised = FALSE
    /\ in_xs = <<>> /\ in_ys = <<>> /\ in_batch_size = 1 /\ out_batches = <<>>
    /\ helper_in = <<>> /\ helper_out = <<>> /\ reruns = 0

Next ==
    \/ Local \/ ConsolePrint \/ Plot \/ Load \/ Write \/ Construct \/ MakeOpt
    \/ Call \/ Return \/ For \/ EndFor \/ If \/ GetBatches \/ GetBatch
    \/ Forward \/ Loss \/ KlLoss \/ ZeroGrad \/ Backward \/ OptStep \/ Mode
    \/ Eval \/ Store \/ SplitEdges \/ AssertStmt \/ NextCell \/ Raise

Spec == Init /\ [][Next]_vars

-----------------------------------------------------------------------------
(* A notebook run top to bottom in which the user, once the edges have been *)
(* split, may execute the cell that calls plot(data) again                  *)

\* the cell "if data.num_nodes < 50000 and not IN_COLAB: plot(data)"
PlotCell == CHOOSE k \in 1..Len(B3Cells) :
                \E i \in 1..Len(B3Cells[k]) : B3Cells[k][i] = I("call", "plot", "", 0)

\* instead of the next cell, the plot cell is executed again
RerunPlotCell ==
    /\ Running /\ Len(stack) = 1 /\ Top.ip > Len(Code(Top))
    /\ nb = "b3" /\ ~edge_index
    /\ reruns < MaxReruns
    /\ reruns' = reruns + 1
    /\ cell' = PlotCell
    /\ stack' = << Frame("cell", 0) >>
    /\ Did("cell", NoObj)
    /\ UNCHANGED <<nb, env, status, objs, train_, vae, res, edge_index, files, raised,
                   in_xs, in_ys, in_batch_size, out_batches, helper_in, helper_out>>

NextRerun == Next \/ RerunPlotCell

SpecRerun == Init /\ [][NextRerun]_vars

-----------------------------------------------------------------------------
(* get_batches on its own, on every small dataset *)

Items == 0..1

SeqsOf(n) == [1..n -> Items]

InitBatches ==
    /\ nb = "gb"
    /\ env = [colab |-> FALSE, cuda |-> FALSE]
    /\ status = "running"
    /\ cell = 1
    /\ stack = << Frame("cell", 0) >>
    /\ bind = [x \in Names |-> NoObj]
    /\ models = <<>>
    /\ opt = [x \in OptNames |-> NoObj]
    /\ calls = [f \in Functions |-> 0]
    /\ call_steps = 0
    /\ loss = NoLoss
    /\ batch = NoBatch
    /\ z = NoZ /\ recon = NoZ /\ kl = NoTok /\ scored = NoZ
    /\ auc_ap = NoScore /\ ret = NoRet /\ ret_log = <<>>
    /\ gae_results = <<>> /\ vgae_results = <<>>
    /\ lists = NoLists
    /\ edge_index = TRUE
    /\ files = {}
    /\ hist = {}
    /\ last_ev = <<"none", NoObj>>
    /\ raised = FALSE
    /\ \E n \in 0..MaxLen : in_xs \in SeqsOf(n) /\ in_ys \in SeqsOf(n)
    /\ in_batch_size \in 1..MaxBatch
    /\ out_batches = <<>>
    /\ helper_in = <<>> /\ helper_out = <<>> /\ reruns = 0

CallGetBatches ==
    /\ nb = "gb" /\ status = "running"
    /\ out_batches' = get_batches(in_xs, in_ys, in_batch_size)
    /\ status' = "returned"
    /\ UNCHANGED <<nb, env, cell, stack, objs, train_, vae, res, world,
                   in_xs, in_ys, in_batch_size, helper_in, helper_out, reruns>>

NextBatches == CallGetBatches

SpecBatches == InitBatches /\ [][NextBatches]_vars

-----------------------------------------------------------------------------
(* The other helpers on their own: make_stargazer_graph and                 *)
(* make_webmluser_graph on every small edge list, get_accuracy on every     *)
(* small score matrix, and a VGAE object whose encode and kl_loss are       *)
(* called in any order with any small logvar.                               *)

NoError == ""
None    == <<>>

\* edges[:, c]: a column of a 2-d array, c counted from 0
Column(edges, c) == [k \in 1..Len(edges) |-> edges[k][c + 1]]

\* dgl.graph((u, v)): the graph with the directed edges (u[k], v[k])
dgl_graph(u, v) == [raised |-> NoError, u |-> u, v |-> v]

\* np.loadtxt reads the ids as floats; a float is represented in tenths
Float(k) == 10 * k

\* array.astype(int): truncation of each float
astype_int(a) == [k \in 1..Len(a) |-> a[k] \div 10]

\* make_stargazer_graph, from the list of [s, d] lists json gave for the index.
\* np.array of an empty list is 1-dimensional: edges[:, 0] raises IndexError.
make_stargazer_graph(edge_list) ==
    IF edge_list = <<>> THEN [raised |-> "IndexError", u |-> <<>>, v |-> <<>>]
    ELSE LET src == Column(edge_list, 0)
             dst == Column(edge_list, 1)
             u   == src \o dst
             v   == dst \o src
         IN  dgl_graph(u, v)

\* make_webmluser_graph with v = np.concatenate([src, dst])
make_webmluser_graph_same(edges) ==
    LET src == astype_int(Column(edges, 0))
        dst == astype_int(Column(edges, 1))
        u   == src \o dst
        v   == src \o dst
    IN  dgl_graph(u, v)

\* make_webmluser_graph, from the 2-d float array np.loadtxt gave
make_webmluser_graph(edges) ==
    LET src == astype_int(Column(edges, 0))
        dst == astype_int(Column(edges, 1))
        u   == src \o dst
        v   == dst \o src
    IN  dgl_graph(u, v)

MAX_LOGVAR == 10

\* tensor.clamp(max=m)
clamp_max(t, m) == [i \in DOMAIN t |-> Min(t[i], m)]

\* VGAE.encode: the logvar it stores and hands to reparametrize
encode_logvar(logvar) == clamp_max(logvar, MAX_LOGVAR)

\* VGAE.kl_loss with the logvar it is passed used as it is
kl_loss_logvar_as_passed(stored, logvar) ==
    IF logvar = None THEN stored ELSE logvar

\* VGAE.kl_loss: the logvar that enters the formula
kl_loss_logvar(stored, logvar) ==
    IF logvar = None THEN stored ELSE clamp_max(logvar, MAX_LOGVAR)

Scores     == {0, 1}
Classes    == 0..(MaxClasses - 1)

IsMax(row, c) == \A d \in DOMAIN row : row[d] <= row[c]
IsMin(row, c) == \A d \in DOMAIN row : row[d] >= row[c]

\* torch.max(pred, dim=1)[1]: for each row the index of a maximal score; which
\* one when several are maximal depends on the device and the version
torch_max(pred) == {ix \in [1..Len(pred) -> Classes] : \A r \in 1..Len(pred) : IsMax(pred[r], ix[r])}
torch_min(pred) == {ix \in [1..Len(pred) -> Classes] : \A r \in 1..Len(pred) : IsMin(pred[r], ix[r])}

\* correct.item() * 1.0 / len(true), kept as the fraction num / den
Accuracy(indices, true) ==
    [num |-> Cardinality({r \in 1..Len(true) : indices[r] = true[r]}), den |-> Len(true)]

\* get_accuracy written with torch.min
get_accuracy_min(pred, true) ==
    {[indices |-> ix, acc |-> Accuracy(ix, true)] : ix \in torch_min(pred)}

\* get_accuracy(pred, true): what it can return, with the indices it found
get_accuracy(pred, true) ==
    {[indices |-> ix, acc |-> Accuracy(ix, true)] : ix \in torch_max(pred)}

Vertices    == 0..MaxVertex
EdgeLists   == UNION {[1..n -> [1..2 -> Vertices]] : n \in 0..MaxEdges}
LogVars     == (MAX_LOGVAR - LogvarSpread)..(MAX_LOGVAR + LogvarSpread)
LogvarTensors == UNION {[1..d -> LogVars] : d \in 1..MaxDim}
FloatArray(edge_list) == [k \in 1..Len(edge_list) |-> [c \in 1..2 |-> Float(edge_list[k][c])]]

InitHelpers ==
    /\ nb \in {"make_graph", "get_accuracy", "VGAE"}
    /\ env = [colab |-> FALSE, cuda |-> FALSE]
    /\ status = "running"
    /\ cell = 1
    /\ stack = << Frame("cell", 0) >>
    /\ bind = [x \in Names |-> NoObj]
    /\ models = <<>>
    /\ opt = [x \in OptNames |-> NoObj]
    /\ calls = [f \in Functions |-> 0]
    /\ call_steps = 0
    /\ loss = NoLoss
    /\ batch = NoBatch
    /\ z = NoZ /\ recon = NoZ /\ kl = NoTok /\ scored = NoZ
    /\ auc_ap = NoScore /\ ret = NoRet /\ ret_log = <<>>
    /\ gae_results = <<>> /\ vgae_results = <<>>
    /\ lists = NoLists
    /\ edge_index = TRUE
    /\ files = {}
    /\ hist = {}
    /\ last_ev = <<"none", NoObj>>
    /\ raised = FALSE
    /\ in_xs = <<>> /\ in_ys = <<>> /\ in_batch_size = 1 /\ out_batches = <<>>
    /\ reruns = 0
    /\ CASE nb = "make_graph" ->
              /\ \E f \in {"make_stargazer_graph", "make_webmluser_graph"}, e \in EdgeLists :
                    helper_in = [fn |-> f, edges |-> e]
              /\ helper_out = dgl_graph(<<>>, <<>>)
         [] nb = "get_accuracy" ->
              /\ \E n \in 1..MaxRows :
                    \E pred \in [1..n -> [Classes -> Scores]], true \in [1..n -> Classes] :
                       helper_in = [pred |-> pred, true |-> true]
              /\ helper_out = [indices |-> <<>>, acc |-> [num |-> 0, den |-> 0]]
         [] nb = "VGAE" ->
              /\ helper_in = [fn |-> "__init__", logvar |-> None]
              /\ helper_out = [logvar |-> None, used |-> None]

rest == <<nb, env, cell, stack, objs, train_, vae, res, edge_index, files, hist,
          in_xs, in_ys, in_batch_size, out_batches, reruns>>

\* G = make_stargazer_graph(i) / webmluser_x = make_webmluser_graph(webmluser_edges)
CallMakeGraph ==
    /\ nb = "make_graph" /\ status = "running"
    /\ helper_out' = IF helper_in.fn = "make_stargazer_graph"
                     THEN make_stargazer_graph(helper_in.edges)
                     ELSE make_webmluser_graph(FloatArray(helper_in.edges))
    /\ raised' = (helper_out'.raised # NoError)
    /\ status' = IF raised' THEN "failed" ELSE "returned"
    /\ last_ev' = <<helper_in.fn, NoObj>>
    /\ UNCHANGED <<rest, helper_in>>

\* acc = get_accuracy(output_val, labels_val)
CallGetAccuracy ==
    /\ nb = "get_accuracy" /\ status = "running"
    /\ helper_out' \in get_accuracy(helper_in.pred, helper_in.true)
    /\ status' = "returned"
    /\ last_ev' = <<"get_accuracy", NoObj>>
    /\ UNCHANGED <<rest, helper_in, raised>>

\* z = vgae.encode(...), the encoder returning any logvar
CallEncode ==
    /\ nb = "VGAE" /\ status = "running"
    /\ \E logvar \in LogvarTensors :
          /\ helper_in' = [fn |-> "encode", logvar |-> logvar]
          /\ helper_out' = [logvar |-> encode_logvar(logvar),  \* self.__logvar__
                            used   |-> encode_logvar(logvar)]  \* reparametrize(mu, logvar)
    /\ last_ev' = <<"encode", NoObj>>
    /\ UNCHANGED <<rest, status, raised>>

\* vgae.kl_loss() and vgae.kl_loss(mu, logvar); without arguments before any
\* encode, self.__logvar__ does not exist: AttributeError
CallKlLoss ==
    /\ nb = "VGAE" /\ status = "running"
    /\ \E logvar \in LogvarTensors \cup {None} :
          /\ helper_in' = [fn |-> "kl_loss", logvar |-> logvar]
          /\ IF logvar = None /\ helper_out.logvar = None
             THEN status' = "failed" /\ raised' = TRUE /\ UNCHANGED helper_out
             ELSE /\ helper_out' = [helper_out EXCEPT
                                       !.used = kl_loss_logvar(helper_out.logvar, logvar)]
                  /\ UNCHANGED <<status, raised>>
    /\ last_ev' = <<"kl_loss", NoObj>>
    /\ UNCHANGED rest

NextHelpers == CallMakeGraph \/ CallGetAccuracy \/ CallEncode \/ CallKlLoss

SpecHelpers == InitHelpers /\ [][NextHelpers]_vars

-----------------------------------------------------------------------------
(* Properties *)

\* the function whose frame is on top of the stack is fn, and e was done last
Just(e, fn) == last_ev[1] = e /\ Top.fn = fn

\* C1 (as stated): for all equal-length xs, ys and batch_size >= 1, the batches
\* get_batches returns concatenate to the whole dataset: batches_x to xs and
\* batches_y to ys.
C1_AllBatchesReturned ==
    status = "returned" =>
        /\ Concat(out_batches[1]) = in_xs
        /\ Concat(out_batches[2]) = in_ys

\* C2 (as stated): whenever train_vgae computes its reconstruction loss, the
\* latent z that enters it is the reparametrised sample (the model was in
\* training mode when vgae.encode ran), not the plain mean.
C2_SampledLatentEntersLoss ==
    Just("loss", "train_vgae") => recon.kind = "sample"

-----------------------------------------------------------------------------
(* The position of a run: the cell, then for each frame of the stack, from  *)
(* the bottom, the loop indices and the statement.  An inner loop counts    *)
(* from the statement after its for to its endfor; past the endfor the      *)
(* frame is later than every iteration of it.                               *)

InnerLoop(f) == {k \in 1..Len(Code(f)) : Code(f)[k].op = "for" /\ Code(f)[k].a = "j"}

Key(f) ==
    << f.i,
       IF \E k \in InnerLoop(f) : f.ip > Code(f)[k].n THEN 1 ELSE 0,
       IF \E k \in InnerLoop(f) : f.ip > k /\ f.ip <= Code(f)[k].n THEN f.j ELSE -1,
       f.ip >>

\* a is before b in the lexicographic order
Before(a, b) ==
    \E k \in 1..Len(a) : a[k] < b[k] /\ \A l \in 1..(k - 1) : a[l] = b[l]

\* the stack s is earlier than t from frame k on: decided by the first frame
\* in which they differ, a frame that has returned being later than the frame
\* while it ran
RECURSIVE EarlierFrom(_, _, _)
EarlierFrom(s, t, k) ==
    IF k > Len(t) THEN k <= Len(s)
    ELSE IF k > Len(s) THEN FALSE
    ELSE IF s[k] = t[k] THEN EarlierFrom(s, t, k + 1)
    ELSE Before(Key(s[k]), Key(t[k]))

Earlier(s, t) == EarlierFrom(s, t, 1)

\* the statement that called the training function that has just returned
Caller == Code(Top)[Top.ip - 1]

\* the optimizer steps C3 states for the call that has just returned
StepsStated ==
    LET E == IF Caller.n = -1 THEN Top.n ELSE Caller.n IN
    CASE Caller.a = "train_stargazer_gnn"          -> E * Len(train_batches[1])
      [] Caller.a = "train"                        -> E
      [] Caller.a \in {"train_gae", "train_vgae"}  -> 200

TrainReturned == last_ev[1] = "train_done"

\* C3: every training loop runs a fixed number of iterations whatever the
\* losses drawn, and the run terminates: every step of a running notebook moves
\* it to a strictly later position (so no run visits a position twice), and a
\* training function returns after exactly E * len(batches_x) optimizer steps
\* (train_stargazer_gnn), E (train of the GraphSAGE notebook), 200 (train_gae,
\* train_vgae).
C3_FixedIterations ==
    [][ /\ status' = "running" =>
             \/ cell < cell'
             \/ cell = cell' /\ Earlier(stack, stack')
        /\ TrainReturned' => (call_steps = StepsStated)'
      ]_vars

\* train_stargazer_gnn(stargazer_gnn_example, 8) has returned after 8 * 126 steps
C3_EightEpochsDone ==
    /\ TrainReturned /\ nb = "b1" /\ cell = 21
    /\ call_steps = 8 * 126
    /\ loss = NoLoss

\* C4: in every training loop the loss of a forward pass of the model is what
\* is back-propagated (forward, loss, backward), the optimizer step follows
\* the backward pass on the same model, and zero_grad runs exactly once between
\* two consecutive backward passes: no gradient accumulates.
C4_TrainingStepOrder ==
    \A o \in DOMAIN models :
        /\ models[o].grad <= 1
        /\ models[o].zb \in {-1, 1}
        /\ models[o].bwd_on \in {"none", "loss"}
        /\ models[o].step_on \in {"none", "bwd"}

\* the backward pass of a later epoch, one zero_grad after the previous one
C4_LaterBackward ==
    /\ last_ev[1] = "backward" /\ IsTrain(Top.fn) /\ Top.i >= 1
    /\ models[last_ev[2]].grad = 1 /\ models[last_ev[2]].zb = 1

NoTrainFrame == \A k \in 1..Len(stack) : ~IsTrain(stack[k].fn)

\* C5 (as stated): no evaluation of a model runs before that model's training
\* loop has finished, and no plot is made before an evaluation.
C5_PhasesInOrder ==
    /\ last_ev[1] = "eval" => <<"train_done", last_ev[2]>> \in hist
    /\ last_ev[1] = "plot" => \E e \in hist : e[1] = "eval"

\* C5 (amended): all dataset loading precedes the first model construction, a
\* model is constructed (after the loading) before its training starts, and an
\* evaluation made outside the training loops runs only after the training of
\* that model has finished.
C5_PhasesAmended ==
    /\ last_ev[1] = "load" => ~ \E e \in hist : e[1] = "construct"
    /\ last_ev[1] = "construct" => \E e \in hist : e[1] = "load"
    /\ last_ev[1] = "train_start" => <<"construct", last_ev[2]>> \in hist
    /\ (last_ev[1] = "eval" /\ NoTrainFrame) => <<"train_done", last_ev[2]>> \in hist

\* the report of train_test_architecture on the model it has trained
C5_ReportAfterTraining ==
    /\ Just("eval", "train_test_architecture") /\ NoTrainFrame
    /\ <<"train_done", last_ev[2]>> \in hist
    /\ \E e \in hist : e[1] = "plot"

\* C6: the i-th pair of gae_results is what the i-th train_gae call of the
\* experiments cell returned and the i-th pair of vgae_results what the i-th
\* train_vgae call returned, the calls alternating train_gae, train_vgae (the
\* two functions have each returned once before the cell); when the cell has
\* run both lists hold n_experiments = 10 pairs.
C6_ExperimentResults ==
    (nb = "b3" /\ cell >= 27) =>
        /\ \A i \in 1..Len(gae_results) :
              /\ 2 * i + 1 <= Len(ret_log)
              /\ ret_log[2 * i + 1] = [fn |-> "train_gae", val |-> gae_results[i]]
        /\ \A i \in 1..Len(vgae_results) :
              /\ 2 * i + 2 <= Len(ret_log)
              /\ ret_log[2 * i + 2] = [fn |-> "train_vgae", val |-> vgae_results[i]]
        /\ \A i, k \in 1..Len(gae_results) : i # k => gae_results[i] # gae_results[k]
        /\ cell > 27 => Len(gae_results) = 10 /\ Len(vgae_results) = 10

\* the experiments cell has run
C6_ExperimentsRun ==
    /\ nb = "b3" /\ cell = 28 /\ status = "running"
    /\ Len(gae_results) = 10 /\ Len(vgae_results) = 10
    /\ Len(ret_log) = 22

\* C7: vgae.kl_loss() in train_vgae uses the mu and logvar stored by the
\* encode call of the same epoch of the same train_vgae call, never those of
\* the encode made inside test().
C7_KlOfSameEpoch ==
    Just("kl_loss", "train_vgae") =>
        kl = [by |-> "train_vgae", call |-> calls["train_vgae"], epoch |-> Top.i]

\* kl_loss in an epoch that follows a test() of the previous epoch
C7_KlAfterTest ==
    /\ Just("kl_loss", "train_vgae") /\ Top.i = 2
    /\ scored.src.by = "test" /\ kl.epoch = 2

C9_NoFileWritten == files = {}

\* the paths the statements of a notebook name to create or write
NamedPaths(n) ==
    CASE n = "b1" -> {"site-packages", "./gnn-tutorial"}
      [] n = "b2" -> {"site-packages", "~/.dgl"}
      [] n = "b3" -> {"site-packages", "./datasets/PubMed", "./log", "./graph.eps"}

\* C9 (amended): files are created or written only by the package installs
\* and the git clone, by the dataset classes that download (CoraGraphDataset,
\* Planetoid), by SummaryWriter and writer.add_scalar (./log) and by plot
\* (./graph.eps): a step changes the files only if it is one of these
\* statements, and only by the path it names.
C9_OnlyNamedPathsWritten ==
    [][ files' # files =>
          /\ AtStmt /\ Cur.op \in {"write", "load"}
          /\ files' = files \cup {Cur.b}
          /\ Cur.b \in NamedPaths(nb)
      ]_vars

\* writer.add_scalar has written to ./log inside train_gae
C9_ScalarLogged ==
    /\ Just("write", "train_gae") /\ Top.i = 1
    /\ "./log" \in files

\* C10: a failure propagates uncaught: the step that raises executes nothing
\* (the statement, the loop indices and the optimizer steps stay as they are)
\* and after it no step is taken at all: no further statement, no further
\* iteration, no retry.
C10_FailurePropagates ==
    [][ /\ ~raised
        /\ raised' => /\ status' = "failed"
                      /\ UNCHANGED <<cell, stack, call_steps, models, files>>
      ]_vars

\* a failure in the backward pass of the second epoch of train
C10_FailedInLoop ==
    /\ raised /\ status = "failed"
    /\ Top.fn = "train" /\ Top.i = 1 /\ Cur.op = "backward"
    /\ call_steps = 1

\* the library calls of the notebooks that are given the data
LibraryCalls == {"load", "construct", "forward", "backward", "eval", "split_edges"}

C17_PlotAssertion ==
    /\ reruns = 0 => ~(raised /\ Cur.op = "assert")
    /\ (reruns = 0 /\ Top.fn = "plot") => edge_index
    /\ Top.fn = "plot" => (~env.colab /\ PubMedNodes < MaxPlotNodes)
    /\ (Top.fn = "plot" /\ ~edge_index) =>
          /\ Top.ip = 1
          /\ last_ev[1] = "assert" => status = "failed"

\* plot called again after the split: stopped at its assertion; the file is
\* the one the first call wrote
C17_CallAfterSplit ==
    /\ Top.fn = "plot" /\ ~edge_index /\ reruns = 1
    /\ status = "failed" /\ Top.ip = 1
    /\ "./graph.eps" \in files

C13_ValidationInEvalMode ==
    Just("eval", "train") => scored.kind = "eval"

\* C14 (as stated): test_stargazer_gnn returns y_true, y_pred and hidden with
\* num_test = 2048 entries each, the last of them those of the last graph of
\* the test slice stargazer_x[8096 : 8096 + 2048].
C14_AllTestGraphs ==
    (last_ev[1] = "return" /\ ret.kind = "test_lists") =>
        /\ lists.y_true.n = num_test /\ lists.y_true.last = num_train + num_test - 1
        /\ lists.y_pred.n = num_test /\ lists.y_pred.last = num_train + num_test - 1
        /\ lists.hidden.n = num_test /\ lists.hidden.last = num_train + num_test - 1

\* directed edges (a, b) of a built graph, counted with multiplicity
EdgeCount(g, a, b) == Cardinality({k \in 1..Len(g.u) : g.u[k] = a /\ g.v[k] = b})

\* C15: a graph built by make_stargazer_graph or make_webmluser_graph is
\* undirected: for every row k = [s, d] of the input, its directed edge k is
\* (s, d) and its directed edge rows + k is (d, s); every directed edge (a, b)
\* occurs as often as (b, a); and it has exactly twice as many directed edges
\* as the input has rows.  The only input no graph is built from is the empty
\* list handed to make_stargazer_graph.
C15_Undirected ==
    (nb = "make_graph" /\ status # "running") =>
        LET rows == Len(helper_in.edges)
            g    == helper_out
        IN  /\ raised <=> (helper_in.fn = "make_stargazer_graph" /\ rows = 0)
            /\ ~raised =>
                  /\ Len(g.u) = 2 * rows /\ Len(g.v) = 2 * rows
                  /\ \A k \in 1..rows :
                        LET s == helper_in.edges[k][1]
                            d == helper_in.edges[k][2]
                        IN  /\ g.u[k] = s /\ g.v[k] = d
                            /\ g.u[rows + k] = d /\ g.v[rows + k] = s
                  /\ \A a, b \in Vertices : EdgeCount(g, a, b) = EdgeCount(g, b, a)

C15_GraphBuilt ==
    /\ nb = "make_graph" /\ status = "returned"
    /\ helper_in.fn = "make_webmluser_graph"
    /\ Len(helper_in.edges) = MaxEdges
    /\ \E k \in 1..Len(helper_in.edges) : helper_in.edges[k][1] # helper_in.edges[k][2]
    /\ Len(helper_out.u) = 2 * MaxEdges

AtMost(t, m) == t # None => \A i \in DOMAIN t : t[i] <= m

\* C16: the log-variance a VGAE stores is at most MAX_LOGVAR in every
\* component after any encode, and so is the log-variance that reparametrize
\* or the formula of kl_loss last received, whether kl_loss took the stored one
\* or one passed explicitly: a passed component above MAX_LOGVAR enters as
\* MAX_LOGVAR, any other as it is.
C16_LogvarClamped ==
    nb = "VGAE" =>
        /\ AtMost(helper_out.logvar, MAX_LOGVAR)
        /\ AtMost(helper_out.used, MAX_LOGVAR)
        /\ (helper_in.fn = "encode" => helper_out.logvar # None /\ helper_out.used = helper_out.logvar)
        /\ (helper_in.fn = "kl_loss" /\ helper_in.logvar # None) =>
              /\ DOMAIN helper_out.used = DOMAIN helper_in.logvar
              /\ \A i \in DOMAIN helper_in.logvar :
                    helper_out.used[i] = IF helper_in.logvar[i] > MAX_LOGVAR
                                         THEN MAX_LOGVAR ELSE helper_in.logvar[i]

C16_ExplicitLogvarAboveMax ==
    /\ nb = "VGAE" /\ status = "running"
    /\ helper_in.fn = "kl_loss" /\ helper_in.logvar # None
    /\ helper_out.logvar # None
    /\ \E i \in DOMAIN helper_in.logvar :
          helper_in.logvar[i] > MAX_LOGVAR /\ helper_out.used[i] = MAX_LOGVAR

\* rows of pred whose highest score is reached by the class of the label
RowCorrect(pred, true, r) == IsMax(pred[r], true[r])
\* rows of pred whose highest score is reached by the class of the label only
RowSurelyCorrect(pred, true, r) ==
    \A c \in DOMAIN pred[r] : c # true[r] => pred[r][c] < pred[r][true[r]]

\* C18: get_accuracy(pred, true) is the number of rows whose highest-scoring
\* class (the one torch.max picked, a class with a maximal score of the row)
\* equals the label, divided by len(true); it lies in [0, 1]; and it is 1
\* exactly when every row is classified correctly.
C18_Accuracy ==
    (nb = "get_accuracy" /\ status = "returned") =>
        LET pred == helper_in.pred
            true == helper_in.true
            ix   == helper_out.indices
            acc  == helper_out.acc
            hit  == {r \in 1..Len(true) : ix[r] = true[r]}
        IN  /\ DOMAIN ix = 1..Len(pred)
            /\ \A r \in 1..Len(pred) : IsMax(pred[r], ix[r])
            /\ acc.den = Len(true) /\ acc.den > 0
            /\ acc.num = Cardinality(hit)
            /\ 0 <= acc.num /\ acc.num <= acc.den
            /\ (acc.num = acc.den) <=> (\A r \in 1..Len(true) : ix[r] = true[r])
            /\ Cardinality({r \in 1..Len(true) : RowSurelyCorrect(pred, true, r)}) <= acc.num
            /\ acc.num <= Cardinality({r \in 1..Len(true) : RowCorrect(pred, true, r)})

C18_HalfCorrect ==
    /\ nb = "get_accuracy" /\ status = "returned"
    /\ Len(helper_in.true) = MaxRows
    /\ \A r \in 1..MaxRows : Cardinality(torch_max(<<helper_in.pred[r]>>)) = 1
    /\ helper_out.acc.num = 1
    /\ helper_out.acc.den = MaxRows


====
